---- MODULE Spec2Model ----
(***************************************************************************)
(* Model of stitcher/evolutionary.py: BasicEvolution._darwin and           *)
(* BasicEvolution.run over a population of Candidate objects.              *)
(*                                                                         *)
(* Candidates are objects on a heap (gens), a population is a sequence of  *)
(* object references, so that two slots can hold the same object.  The     *)
(* float options of BasicEvolution are held in percent (0.2 is 20);        *)
(* int(n * 0.2) is (n * 20) \div 100 for every value used here.            *)
(***************************************************************************)
EXTENDS Integers, Sequences, FiniteSets, TLC

\* ------------------------------------------------------------- bounds
MaxPop == 3        \* largest population given to run
MaxGen == 1        \* gen is in 0..MaxGen
MaxRuns == 1       \* largest max_runs

\* defaults of BasicEvolution.__init__ and run, in percent
DefaultCutoff == 20
DefaultDiversity == 10
DefaultMutate == 10
DefaultGrowth == 100
DefaultGoal == 0

\* the option values explored: <<cutoff, diversity, mutate, growth>>
Defaults == <<DefaultCutoff, DefaultDiversity, DefaultMutate, DefaultGrowth>>
Cutoffs == {DefaultCutoff, 50, 100}
Diversities == {DefaultDiversity, 100}
Mutates == {0, 50}
Growths == {50, DefaultGrowth}
Configs == {Defaults} \cup (Cutoffs \X Diversities \X Mutates \X Growths)
Goals == {DefaultGoal, 1}

VARIABLES
    cutoff, diversity, mutate, growth,      \* BasicEvolution fields
    max_runs, fitness_goal, stabilizer,     \* arguments of run
    optimum, genes,                         \* the caller's Candidate class
    gens,                                   \* heap: gens[o] is o.gen
    population,                             \* run's / _darwin's population
    new_population, div_pool,               \* locals of _darwin
    len_pop, len_new_pop,
    todo,                                   \* iterations left of the current for loop
    iteration, fitness_sum,                 \* locals of run
    pc,                                     \* position in run / _darwin
    log,                                    \* LOG.info / LOG.warn records
    error,                                  \* the exception that ended run, or "none"
    steps,                                  \* number of calls of _darwin
    mutations,                              \* number of calls of mutate() in this _darwin
    input_len,                              \* len(population) as run was called
    bests, sums                             \* per finished generation: best fitness, fitness sum

vars == <<cutoff, diversity, mutate, growth, max_runs, fitness_goal, stabilizer,
          optimum, genes, gens, population, new_population, div_pool, len_pop,
          len_new_pop, todo, iteration, fitness_sum, pc, log, error, steps,
          mutations, input_len, bests, sums>>

config == <<cutoff, diversity, mutate, growth, max_runs, fitness_goal, stabilizer,
            optimum, genes, input_len>>

\* ------------------------------------------------------------- helpers
Range(s) == {s[i] : i \in 1..Len(s)}

\* int(n * fraction), the fraction in percent
int(n, pct) == (n * pct) \div 100

\* population[lo:hi] with 0-based, non-negative lo and hi
Slice(s, lo, hi) ==
    LET h == IF hi > Len(s) THEN Len(s) ELSE hi
    IN  IF lo >= h THEN <<>> ELSE SubSeq(s, lo + 1, h)

\* Candidate.fitness of the caller's class: abs(gen - optimum)
FitnessOf(g) == IF g >= optimum THEN g - optimum ELSE optimum - g

fitness(heap, o) == FitnessOf(heap[o])

\* list.sort(key=fitness) is stable and ascending: the slot of s that comes
\* to rest at position k is the one with k - 1 slots before it in that order
SortRank(heap, s, i) ==
    Cardinality({j \in 1..Len(s) :
                    \/ fitness(heap, s[j]) < fitness(heap, s[i])
                    \/ fitness(heap, s[j]) = fitness(heap, s[i]) /\ j <= i})

\* (the list left as it is)
Unsorted(heap, s) == s

SortByFitness(heap, s) ==
    <<>> \o [k \in 1..Len(s) |-> s[CHOOSE i \in 1..Len(s) : SortRank(heap, s, i) = k]]

\* Object names are arbitrary: after each sort the objects are named 1, 2, ...
\* in the order of their first slot.  population = self._darwin(population)
\* drops the old list, and the objects no slot refers to any more are reclaimed.
FirstSlot(pop, o) ==
    CHOOSE q \in 1..Len(pop) : pop[q] = o /\ \A j \in 1..(q - 1) : pop[j] # o

NameOf(pop, o) == Cardinality({pop[j] : j \in 1..FirstSlot(pop, o)})

LiveHeap(heap, pop) ==
    <<>> \o [k \in 1..Cardinality(Range(pop)) |->
        heap[CHOOSE o \in Range(pop) : NameOf(pop, o) = k]]

LivePopulation(pop) == <<>> \o [i \in 1..Len(pop) |-> NameOf(pop, pop[i])]

\* sum(candidate.fitness() for candidate in population)
RECURSIVE SumTo(_, _, _)
SumTo(heap, s, k) == IF k = 0 THEN 0 ELSE fitness(heap, s[k]) + SumTo(heap, s, k - 1)

FitnessSum(heap, s) == SumTo(heap, s, Len(s))

\* ------------------------------------------------------------- _darwin
\* (no elite kept)
ElitesNone(pop) == <<>>

\* (the slice taken one slot late)
ElitesShifted(pop) == Slice(pop, 1, int(Len(pop), cutoff) + 1)

\* population[0:int(len(population) * self.cutoff)]
Elites(pop) == Slice(pop, 0, int(Len(pop), cutoff))

\* (the slice taken to the end of the list)
DivPoolWithLast(pop) == Slice(pop, int(Len(pop), cutoff), Len(pop))

\* population[int(len(population) * self.cutoff):-1]
DivPool(pop) == Slice(pop, int(Len(pop), cutoff), Len(pop) - 1)

\* range(int(self.diversity * len(div_pool)))
DiversityCount(pool) == int(Len(pool), diversity)

\* (rounded up)
MutateCountCeil(newpop) == (Len(newpop) * mutate + 99) \div 100

\* range(int(self.mutate * len(new_population)))
MutateCount(newpop) == int(Len(newpop), mutate)

\* (the slot gets a changed copy of its object)
MutatedCopy(heap, newpop, i, g) ==
    <<Append(heap, g), [newpop EXCEPT ![i] = Len(heap) + 1]>>

\* new_population[i].mutate(): the object changes in place, the list does not;
\* the heap and the list after the call
Mutated(heap, newpop, i, g) == <<[heap EXCEPT ![newpop[i]] = g], newpop>>

\* range(int(len_pop * self.growth) - len_new_pop)
ChildrenCount(n, m) == IF int(n, growth) > m THEN int(n, growth) - m ELSE 0

\* the indices random.randint(0, len_new_pop - 1) can return, as 1-based
\* positions in population
ParentIndices(n, m) == 1..m

\* ------------------------------------------------------------- run
\* population[0].fitness() == fitness_goal
GoalReached(best) == best = fitness_goal

\* (the comparison skipped in generation 0)
StabilizedNotFirst(new_sum) == stabilizer /\ iteration > 0 /\ new_sum = fitness_sum

\* new_fitness_sum == fitness_sum, tested only with the stabilizer on
Stabilized(new_sum) == stabilizer /\ new_sum = fitness_sum

\* (iteration counted before the break)
BreakIterationNext(it) == it + 1

\* break leaves iteration as it is
BreakIteration(it) == it

\* (the bound excluded)
LoopRunsBelow(it) == it < max_runs

\* (one more pass allowed)
LoopRunsOneMore(it) == it <= max_runs + 1

\* while iteration <= max_runs
LoopRuns(it) == it <= max_runs

\* if iteration >= max_runs
WarnMaxIterations(it) == it >= max_runs

\* 'Found solution in iteration: ' + str(iteration)
Found(it) == [msg |-> "found", it |-> it]

\* (the iteration of the break itself)
StabilizedSameIteration(it) == [msg |-> "stabilized", it |-> it]

\* 'Population stabilized after iteration: ' + str(iteration - 1)
StabilizedAfter(it) == [msg |-> "stabilized", it |-> it - 1]

\* 'Maximum number of iterations reached'
MaxReached == [msg |-> "max", it |-> max_runs]

\* ------------------------------------------------------------- initial states
Populations == UNION {[1..n -> 0..MaxGen] : n \in 0..MaxPop}

InitLocals ==
    /\ new_population = <<>>
    /\ div_pool = <<>>
    /\ len_pop = 0
    /\ len_new_pop = 0
    /\ todo = 0
    /\ iteration = 0
    /\ fitness_sum = 0
    /\ pc = "start"
    /\ log = <<>>
    /\ error = "none"
    /\ steps = 0
    /\ mutations = 0
    /\ bests = <<>>
    /\ sums = <<>>

Init ==
    /\ \E c \in Configs :
          /\ cutoff = c[1]
          /\ diversity = c[2]
          /\ mutate = c[3]
          /\ growth = c[4]
    /\ max_runs \in 0..MaxRuns
    /\ fitness_goal \in Goals
    /\ stabilizer \in BOOLEAN
    /\ optimum = 0
    /\ genes = 0..MaxGen
    /\ gens \in Populations
    /\ population = [i \in 1..Len(gens) |-> i]
    /\ input_len = Len(gens)
    /\ InitLocals

\* ------------------------------------------------------------- actions
\* run, lines 115-117
Start ==
    /\ pc = "start"
    /\ iteration' = 0
    /\ fitness_sum' = 0
    /\ \E pop \in {SortByFitness(gens, population)} :
          /\ population' = LivePopulation(pop)
          /\ gens' = LiveHeap(gens, pop)
    /\ pc' = "loop"
    /\ UNCHANGED <<mutations, config, new_population, div_pool, len_pop, len_new_pop,
                   todo, log, error, steps, bests, sums>>

\* while iteration <= max_runs: ... self._darwin(population), lines 77-81
Select ==
    /\ pc = "loop"
    /\ LoopRuns(iteration)
    /\ new_population' = Elites(population)
    /\ div_pool' = DivPool(population)
    /\ todo' = DiversityCount(DivPool(population))
    /\ steps' = steps + 1
    /\ mutations' = 0
    /\ pc' = "diversity"
    /\ UNCHANGED <<config, gens, population, len_pop, len_new_pop, iteration,
                   fitness_sum, log, error, bests, sums>>

\* one pass of the diversity loop, lines 81-83
DiversityPick ==
    /\ pc = "diversity"
    /\ todo > 0
    /\ \E i \in 1..Len(div_pool) :
          new_population' = Append(new_population, div_pool[i])
    /\ todo' = todo - 1
    /\ UNCHANGED <<mutations, config, gens, population, div_pool, len_pop, len_new_pop,
                   iteration, fitness_sum, pc, log, error, steps, bests, sums>>

\* the diversity loop ends; range of the mutation loop, line 86
DiversityDone ==
    /\ pc = "diversity"
    /\ todo = 0
    /\ todo' = MutateCount(new_population)
    /\ pc' = "mutate"
    /\ UNCHANGED <<mutations, config, gens, population, new_population, div_pool, len_pop,
                   len_new_pop, iteration, fitness_sum, log, error, steps, bests,
                   sums>>

\* one pass of the mutation loop, lines 86-88: mutate() changes the object
Mutation ==
    /\ pc = "mutate"
    /\ todo > 0
    /\ \E i \in 1..Len(new_population), g \in genes :
          /\ gens' = Mutated(gens, new_population, i, g)[1]
          /\ new_population' = Mutated(gens, new_population, i, g)[2]
    /\ todo' = todo - 1
    /\ mutations' = mutations + 1
    /\ UNCHANGED <<config, population, div_pool, len_pop,
                   len_new_pop, iteration, fitness_sum, pc, log, error, steps,
                   bests, sums>>

\* the mutation loop ends; lines 91-93
MutationDone ==
    /\ pc = "mutate"
    /\ todo = 0
    /\ len_pop' = Len(population)
    /\ len_new_pop' = Len(new_population)
    /\ todo' = ChildrenCount(Len(population), Len(new_population))
    /\ pc' = "breed"
    /\ UNCHANGED <<mutations, config, gens, population, new_population, div_pool, iteration,
                   fitness_sum, log, error, steps, bests, sums>>

\* one pass of the breeding loop, lines 93-97, with the two indices drawn and
\* the gen of the child that crossover returns
BreedWith(i1, i2, g) ==
    /\ pc = "breed"
    /\ todo > 0
    /\ i1 \in ParentIndices(len_pop, len_new_pop)
    /\ i2 \in ParentIndices(len_pop, len_new_pop)
    /\ i1 \in 1..Len(population)
    /\ i2 \in 1..Len(population)
    /\ g \in genes
    /\ gens' = Append(gens, g)
    /\ new_population' = Append(new_population, Len(gens) + 1)
    /\ todo' = todo - 1
    /\ UNCHANGED <<mutations, config, population, div_pool, len_pop, len_new_pop, iteration,
                   fitness_sum, pc, log, error, steps, bests, sums>>

Breed == \E i1 \in 1..Len(population), i2 \in 1..Len(population), g \in genes :
            BreedWith(i1, i2, g)

\* random.randint(0, -1) raises ValueError, lines 94-95
BreedEmptyRange ==
    /\ pc = "breed"
    /\ todo > 0
    /\ ParentIndices(len_pop, len_new_pop) = {}
    /\ error' = "ValueError"
    /\ pc' = "error"
    /\ UNCHANGED <<mutations, config, gens, population, new_population, div_pool, len_pop,
                   len_new_pop, todo, iteration, fitness_sum, log, steps, bests,
                   sums>>

\* _darwin returns; run sorts and tests the result, lines 100, 121-138
Generation ==
    /\ pc = "breed"
    /\ todo = 0
    /\ \E pop \in {SortByFitness(gens, new_population)} :
       \E new_fitness_sum \in {FitnessSum(gens, pop)} :
           /\ population' = LivePopulation(pop)
           /\ gens' = LiveHeap(gens, pop)
           /\ IF pop = <<>>
              THEN \* population[0] raises IndexError
                   /\ error' = "IndexError"
                   /\ pc' = "error"
                   /\ UNCHANGED <<iteration, fitness_sum, log, bests, sums>>
              ELSE /\ bests' = Append(bests, fitness(gens, pop[1]))
                   /\ sums' = Append(sums, new_fitness_sum)
                   /\ error' = error
                   /\ IF GoalReached(fitness(gens, pop[1]))
                      THEN /\ log' = Append(log, Found(iteration))
                           /\ iteration' = BreakIteration(iteration)
                           /\ pc' = "show"
                           /\ UNCHANGED fitness_sum
                      ELSE IF Stabilized(new_fitness_sum)
                      THEN /\ log' = Append(log, StabilizedAfter(iteration))
                           /\ iteration' = BreakIteration(iteration)
                           /\ pc' = "show"
                           /\ UNCHANGED fitness_sum
                      ELSE /\ fitness_sum' = IF stabilizer THEN new_fitness_sum
                                                           ELSE fitness_sum
                           /\ iteration' = iteration + 1
                           /\ pc' = "loop"
                           /\ UNCHANGED log
    /\ new_population' = <<>>
    /\ div_pool' = <<>>
    /\ len_pop' = 0
    /\ len_new_pop' = 0
    /\ mutations' = 0
    /\ UNCHANGED <<config, todo, steps>>

\* the while condition fails, line 118
LoopExit ==
    /\ pc = "loop"
    /\ ~LoopRuns(iteration)
    /\ pc' = "show"
    /\ UNCHANGED <<mutations, config, gens, population, new_population, div_pool, len_pop,
                   len_new_pop, todo, iteration, fitness_sum, log, error, steps,
                   bests, sums>>

\* show results and return, lines 141-144
Show ==
    /\ pc = "show"
    /\ log' = IF WarnMaxIterations(iteration) THEN Append(log, MaxReached) ELSE log
    /\ pc' = "done"
    /\ UNCHANGED <<mutations, config, gens, population, new_population, div_pool, len_pop,
                   len_new_pop, todo, iteration, fitness_sum, error, steps, bests,
                   sums>>

Next ==
    \/ Start
    \/ Select
    \/ DiversityPick
    \/ DiversityDone
    \/ Mutation
    \/ MutationDone
    \/ Breed
    \/ BreedEmptyRange
    \/ Generation
    \/ LoopExit
    \/ Show

Spec == Init /\ [][Next]_vars

\* run is sequential code: it keeps taking its next step until it returns or
\* an exception leaves it
FairSpec == Spec /\ WF_vars(Next)

\* ------------------------------------------------------------- the scenario
\* Ten candidates with gen 0..9 and fitness abs(gen - 5); cutoff 0.2,
\* diversity 0.1, no mutation, growth 1.0, goal 0, max_runs 50.  crossover
\* may return a child with any gen of ScenarioGenes.
ScenarioGenes == {0, 5, 9}

InitScenario ==
    /\ cutoff = 20
    /\ diversity = 10
    /\ mutate = 0
    /\ growth = 100
    /\ max_runs = 50
    /\ fitness_goal = 0
    /\ stabilizer \in BOOLEAN
    /\ optimum = 5
    /\ genes = ScenarioGenes
    /\ gens = [i \in 1..10 |-> i - 1]
    /\ population = [i \in 1..10 |-> i]
    /\ input_len = 10
    /\ InitLocals

\* the steps of run that this configuration takes
NextScenario ==
    \/ Start
    \/ Select
    \/ DiversityDone
    \/ MutationDone
    \/ Breed
    \/ Generation
    \/ Show

\* run is sequential code: it keeps taking its next step until it returns
SpecScenario == InitScenario /\ [][NextScenario]_vars /\ WF_vars(NextScenario)

\* ------------------------------------------------------------- properties
IsSorted(heap, s) ==
    \A i \in 1..Len(s) : \A j \in i..Len(s) : fitness(heap, s[i]) <= fitness(heap, s[j])

Messages(kind) == {i \in 1..Len(log) : log[i].msg = kind}

\* generation k (0-based) is entry k + 1 of bests and sums
NoGoalBefore(k) == \A j \in 1..k : bests[j] # fitness_goal

\* the sum that generation k is compared with: the one stored by generation
\* k - 1, and the initial 0.0 for generation 0
StoredSum(k) == IF k = 0 THEN 0 ELSE sums[k]

\* C1: when the best fitness equals fitness_goal after the generation step of
\* iteration k and after no earlier one, run performs no further generation
\* step and the iteration it returns is k.
C1_GoalTermination ==
    \A k \in 0..(Len(bests) - 1) :
        (bests[k + 1] = fitness_goal /\ NoGoalBefore(k))
        => /\ Len(bests) = k + 1
           /\ steps = k + 1
           /\ pc \in {"show", "done"}
           /\ iteration = k
           /\ Found(k) \in Range(log)

C1_Witness ==
    /\ pc = "done"
    /\ Len(bests) = 2
    /\ bests[1] # fitness_goal
    /\ bests[2] = fitness_goal
    /\ iteration = 1

\* C2: a run that has ended, in which no generation reached the goal and (with
\* the stabilizer on) no two consecutive fitness sums were equal, has applied
\* the darwin step max_runs + 1 times and returned max_runs + 1.
C2_MaxIterationExhaustion ==
    (/\ pc \in {"done", "error"}
     /\ NoGoalBefore(Len(bests))
     /\ stabilizer => \A k \in 2..Len(sums) : sums[k] # sums[k - 1])
    => /\ pc = "done"
       /\ steps = max_runs + 1
       /\ iteration = max_runs + 1

\* C3: with the stabilizer on and the goal not reached, run stops at the first
\* generation k whose fitness sum equals the stored sum of generation k - 1,
\* and the iteration it reports for the stabilization is k - 1.
C3_StabilizationTermination ==
    /\ \A i \in Messages("stabilized") :
          LET k == Len(sums) - 1
          IN  /\ stabilizer
              /\ k >= 0
              /\ sums[k + 1] = StoredSum(k)
              /\ \A j \in 0..(k - 1) : sums[j + 1] # StoredSum(j)
              /\ log[i].it = k - 1
              /\ iteration = k
              /\ pc \in {"show", "done"}
    /\ (stabilizer /\ NoGoalBefore(Len(bests)))
       => \A k \in 0..(Len(sums) - 1) :
             sums[k + 1] = StoredSum(k)
             => /\ Len(sums) = k + 1
                /\ pc \in {"show", "done"}
                /\ Messages("stabilized") # {}

C3_Witness ==
    /\ pc = "done"
    /\ Messages("stabilized") # {}
    /\ Len(sums) = 2
    /\ sums[2] = sums[1]
    /\ sums[1] # 0
    /\ iteration = 1

\* C4: run on an empty or single-element population never ends in an error.
C4_DegenerateNoError == input_len <= 1 => pc # "error"

\* C5: after the initial sort, after every generation and in the population
\* run returns, the individuals are in non-decreasing fitness order.
C5_SortInvariant == pc \in {"loop", "show", "done"} => IsSorted(gens, population)

C5_Witness ==
    /\ pc = "done"
    /\ iteration >= 1
    /\ Len(population) >= 2
    /\ fitness(gens, population[1]) < fitness(gens, population[Len(population)])
    /\ mutate > 0

\* C6: when run has returned, "maximum iterations reached" has been reported
\* exactly if neither the goal nor stabilization stopped the loop.
C6_MaxReportedIffExhausted ==
    pc = "done"
    => (Messages("max") # {}
        <=> (Messages("found") = {} /\ Messages("stabilized") = {}))

\* C7: with growth 1.0 a darwin step on n individuals ends by returning
\* exactly n individuals.
C7_SizeLaw ==
    (/\ growth = DefaultGrowth
     /\ \/ pc = "breed" /\ todo = 0
        \/ pc = "error" /\ error = "ValueError")
    => /\ pc = "breed"
       /\ Len(new_population) = Len(population)

\* C8: throughout a darwin step and in the list it returns, each of the first
\* floor(cutoff * n) individuals of the input is in the new population.
C8_Elitism ==
    pc \in {"diversity", "mutate", "breed"}
    => \A i \in 1..((Len(population) * cutoff) \div 100) :
          population[i] \in Range(new_population)

C8_Witness ==
    /\ pc = "breed"
    /\ todo = 0
    /\ (Len(population) * cutoff) \div 100 >= 1
    /\ Len(new_population) > len_new_pop
    /\ len_new_pop > (Len(population) * cutoff) \div 100
    /\ mutate > 0
    /\ \E i \in 1..Len(div_pool) : gens[div_pool[i]] # gens[population[1]]

\* C9: in the scenario run terminates, and the first individual of the
\* population it returns has fitness 0.
C9_Scenario == <>(pc = "done" /\ fitness(gens, population[1]) = 0)

C9_Witness ==
    /\ pc = "done"
    /\ Len(population) = 10
    /\ fitness(gens, population[1]) = 0
    /\ \E i \in 1..10 : gens[population[i]] = 9 /\ population[i] > 2

\* C10: whenever the breeding loop draws the parents of a child, every
\* individual of the input population can be drawn as the first and as the
\* second parent.
C10_ParentsFromWholePopulation ==
    (pc = "breed" /\ todo > 0 /\ len_new_pop > 0)
    => \A i \in 1..Len(population) :
          /\ ENABLED (\E i2 \in 1..Len(population), g \in genes : BreedWith(i, i2, g))
          /\ ENABLED (\E i1 \in 1..Len(population), g \in genes : BreedWith(i1, i, g))

\* C11: a darwin step on two or more individuals never fails on a draw from
\* an empty index range.
C11_NoEmptyRangeError == Len(population) >= 2 => error # "ValueError"

\* C12: with the stabilizer on and the goal not reached in generation 0, a
\* fitness sum of 0 after generation 0 stops run there as stabilized, after
\* one darwin step; any other sum does not stop it in generation 0.
C12_SentinelZero ==
    (stabilizer /\ Len(sums) >= 1 /\ bests[1] # fitness_goal)
    => /\ sums[1] = 0
          => /\ Len(sums) = 1
             /\ steps = 1
             /\ iteration = 0
             /\ pc \in {"show", "done"}
             /\ \E i \in Messages("stabilized") : log[i].it = -1
       /\ sums[1] # 0
          => /\ Len(sums) = 1 => Messages("stabilized") = {}
             /\ pc \in {"show", "done"} => (Len(sums) >= 2 \/ iteration >= 1)

C12_Witness ==
    /\ pc = "done"
    /\ stabilizer
    /\ sums = <<0>>
    /\ bests[1] # fitness_goal
    /\ steps = 1
    /\ input_len >= 2

\* C13: a darwin step ends by returning max(elite + diversity pool, target)
\* individuals, target = floor(growth * n), the children being the difference
\* to the pool.
C13_RefillToTarget ==
    (\/ pc = "breed" /\ todo = 0
     \/ pc = "error" /\ error = "ValueError")
    => /\ pc = "breed"
       /\ Len(new_population) =
             IF len_new_pop >= (len_pop * growth) \div 100
             THEN len_new_pop ELSE (len_pop * growth) \div 100

\* C14 as stated: for cutoff < 1 the last individual of the sorted input is
\* never carried into the new population by elitism or diversity.
C14_WorstNeverCarried ==
    (pc \in {"diversity", "mutate"} /\ cutoff < 100 /\ Len(population) >= 1)
    => population[Len(population)] \notin Range(new_population)

\* C14: the diversity pool is the sorted input from slot floor(cutoff * n) up
\* to but excluding the last slot, floor(diversity * |pool|) draws are appended
\* to the elites, every draw is a member of the pool, and for cutoff < 1 the
\* individual in the last slot is carried only when it also occupies an
\* earlier slot of the input.
C14_DiversityStage ==
    pc \in {"diversity", "mutate"}
    => LET n == Len(population)
           c == (n * cutoff) \div 100
           first == IF c < n THEN c ELSE n
           size == IF n - 1 > c THEN n - 1 - c ELSE 0
           pool == [k \in 1..size |-> population[c + k]]
           draws == (size * diversity) \div 100
           left == IF pc = "diversity" THEN todo ELSE 0
       IN  /\ div_pool = pool
           /\ Len(new_population) = first + draws - left
           /\ \A i \in 1..first : new_population[i] = population[i]
           /\ \A i \in (first + 1)..Len(new_population) :
                 \E k \in 1..size : new_population[i] = pool[k]
           /\ (cutoff < 100 /\ n >= 1 /\ population[n] \in Range(new_population))
              => \E j \in 1..(n - 1) : population[j] = population[n]

\* two draws of the same individual, the last slot left out
C14_Witness ==
    /\ pc = "mutate"
    /\ cutoff < 100
    /\ Len(div_pool) >= 2
    /\ Len(new_population) >= 2
    /\ new_population[1] = new_population[2]
    /\ population[Len(population)] \notin Range(new_population)

\* a step of the model inside one call of _darwin
InDarwin ==
    /\ pc \in {"diversity", "mutate", "breed"}
    /\ pc' \in {"diversity", "mutate", "breed"}

\* C15: within one darwin step mutate() is invoked exactly
\* floor(mutate_rate * (elites + diversity picks)) times, every invocation
\* changes a member of the elite+diversity pool only, and all invocations come
\* before the first crossover: no object changes while children are bred.
C15_MutationOrder ==
    /\ [](pc = "breed"
          => LET n == Len(population)
                 c == (n * cutoff) \div 100
                 first == IF c < n THEN c ELSE n
                 size == IF n - 1 > c THEN n - 1 - c ELSE 0
                 draws == (size * diversity) \div 100
             IN  mutations = ((first + draws) * mutate) \div 100)
    /\ [][InDarwin
          => /\ Len(gens') >= Len(gens)
             /\ mutations' # mutations
                => /\ pc = "mutate"
                   /\ mutations' = mutations + 1
                   /\ Len(new_population') = Len(new_population)
             /\ \A o \in 1..Len(gens) :
                   gens'[o] # gens[o]
                   => /\ pc = "mutate"
                      /\ mutations' = mutations + 1
                      /\ o \in Range(new_population)
                      /\ \A q \in (1..Len(gens)) \ {o} : gens'[q] = gens[q]
             /\ pc = "breed"
                => /\ pc' = "breed"
                   /\ mutations' = mutations]_vars

\* a child bred after a mutation in the same step
C15_Witness ==
    /\ pc = "breed"
    /\ mutations >= 1
    /\ Len(new_population) > len_new_pop

\* C16: a mutation applied through one slot of the new population is seen
\* through every slot of the new population and of the input population that
\* holds the same individual; no slot is given a copy.
C16_AliasingPreserved ==
    [][(InDarwin /\ mutations' = mutations + 1)
       => /\ Len(new_population') = Len(new_population)
          /\ Len(population') = Len(population)
          /\ \A i \in 1..Len(new_population) :
                /\ \A j \in 1..Len(new_population) :
                      new_population[i] = new_population[j]
                      => gens'[new_population'[i]] = gens'[new_population'[j]]
                /\ \A j \in 1..Len(population) :
                      new_population[i] = population[j]
                      => gens'[new_population'[i]] = gens'[population'[j]]]_vars

\* breeding can draw slot i of the input, which holds an individual that the
\* mutation loop of this step made worse than an untouched later one; the new
\* population holds one individual twice
C16_Witness ==
    /\ pc = "breed"
    /\ todo > 0
    /\ mutations >= 1
    /\ \E a \in 1..Len(new_population), b \in 1..Len(new_population) :
          a # b /\ new_population[a] = new_population[b]
    /\ \E i \in ParentIndices(len_pop, len_new_pop) \cap (1..Len(population)) :
       \E j \in (i + 1)..Len(population) :
          /\ population[i] \in Range(new_population)
          /\ population[j] \notin Range(new_population)
          /\ fitness(gens, population[i]) > fitness(gens, population[j])

\* C17: run takes at most max_runs + 1 darwin steps, the iteration count it
\* returns is between 0 and max_runs + 1, and unless a generation step fails
\* run eventually returns.
C17_TerminationBound ==
    /\ [](steps <= max_runs + 1)
    /\ [](pc = "done" => iteration \in 0..(max_runs + 1))
    /\ <>(pc = "done" \/ pc = "error")

\* a run that used every pass of the loop
C17_Witness ==
    /\ pc = "done"
    /\ max_runs >= 1
    /\ steps = max_runs + 1
    /\ iteration = max_runs + 1

\* C18: with mutate_rate = 0, growth = 1.0 and floor(cutoff * n) >= 1 the
\* fitness of the first individual of the sorted population after a
\* generation is never above the one before it, and the generation completes.
C18_BestNeverWorsens ==
    [][(/\ mutate = 0
        /\ growth = 100
        /\ (Len(population) * cutoff) \div 100 >= 1
        /\ pc = "breed"
        /\ pc' # "breed")
       => /\ pc' \in {"loop", "show"}
          /\ Len(population') >= 1
          /\ fitness(gens', population'[1]) <= fitness(gens, population[1])]_vars

\* the best fitness improved from one generation to the next
C18_Witness ==
    /\ mutate = 0
    /\ growth = 100
    /\ (input_len * cutoff) \div 100 >= 1
    /\ Len(bests) >= 2
    /\ bests[2] < bests[1]

\* C19: run enters the loop and applies a darwin step before its first goal
\* check, whatever the initial population holds: every goal check, every
\* message and every return follows a darwin step.
C19_GoalAfterGeneration ==
    /\ Len(bests) <= steps
    /\ Len(log) >= 1 => steps >= 1
    /\ pc \in {"show", "done", "error"} => steps >= 1
    /\ (pc = "loop" /\ steps = 0) => (iteration = 0 /\ ENABLED Select)
    /\ (steps >= 1 /\ iteration = 0 /\ pc \in {"diversity", "mutate", "breed"})
       => (bests = <<>> /\ log = <<>>)

\* the first step ends without mutation and without elites: the input's first
\* individual meets the goal and no individual of the step's result does
C19_Witness ==
    /\ pc = "breed"
    /\ todo = 0
    /\ steps = 1
    /\ mutate = 0
    /\ (len_pop * cutoff) \div 100 = 0
    /\ new_population # <<>>
    /\ fitness(gens, population[1]) = fitness_goal
    /\ \A i \in 1..Len(new_population) :
          fitness(gens, new_population[i]) # fitness_goal

====
